---- MODULE Spec2Model ----
(***************************************************************************)
(* A model of iotcmqtt.mqttclient.MqttClient: a wrapper around an MQTT     *)
(* protocol engine (paho's mqtt.Client).  The wrapper's fields, its        *)
(* caller-facing methods and its three engine event handlers are modelled  *)
(* from src/iotcmqtt/mqttclient.py; the engine is the environment: it      *)
(* records the calls made on it in a call log and delivers events.         *)
(***************************************************************************)
EXTENDS Integers, Sequences, FiniteSets, TLC

(***************************************************************************)
(* Python values.  A value carries its type, so that None, "", 0, False    *)
(* and {} stay distinct values that are all false in a condition.          *)
(***************************************************************************)
None == [t |-> "none"]
Str(s) == [t |-> "str", v |-> s]
PInt(n) == [t |-> "int", v |-> n]
Bool(b) == [t |-> "bool", v |-> b]
Dict(d) == [t |-> "dict", v |-> d]
Func(f) == [t |-> "func", v |-> f]

\* The truth value Python gives a value in `if x`, `x or y`, `not x`.
Truthy(x) ==
    CASE x.t = "none" -> FALSE
      [] x.t = "str"  -> x.v /= ""
      [] x.t = "int"  -> x.v /= 0
      [] x.t = "bool" -> x.v
      [] x.t = "dict" -> DOMAIN x.v /= {}
      [] OTHER        -> TRUE

\* Python's `a or b`: a when a is true, else b.
PyOr(a, b) == IF Truthy(a) THEN a ELSE b

\* str(x) as an f-string renders it.
PyStr(x) ==
    CASE x.t = "none" -> "None"
      [] x.t = "str"  -> x.v
      [] OTHER        -> "?"

(***************************************************************************)
(* Bounds of the exploration.                                              *)
(***************************************************************************)
\* Caller-facing calls (connect, disconnect, subscribe, ...) in one run.
MaxCalls == 4
\* Engine events (connect, disconnect, message) delivered in one run.
MaxEvents == 3

(***************************************************************************)
(* Floating point.  seconds_passed is a Python float that grows by 0.1 a   *)
(* poll.  A double below 8 that is a multiple of 2^-55 is held exactly as  *)
(* three limbs <<hi, mid, lo>> of 20 bits each, in units of 2^-55.         *)
(***************************************************************************)
Limb == 2^20

\* The double nearest 0.1: 0x1.999999999999ap-4 = 3602879701896397 * 2^-55.
PollInterval == <<3276, 838860, 838861>>

\* float(5) = 5 * 2^55 units.
TimeoutSeconds == 5
ToFloat(n) == <<n * 32768, 0, 0>>

FloatZero == <<0, 0, 0>>

\* x > y on limbs.
FGreater(x, y) ==
    \/ x[1] > y[1]
    \/ x[1] = y[1] /\ x[2] > y[2]
    \/ x[1] = y[1] /\ x[2] = y[2] /\ x[3] > y[3]

\* Carries propagated from the low limb up.
Normalize(h, m, l) ==
    LET m2 == m + (l \div Limb)
    IN  <<h + (m2 \div Limb), m2 % Limb, l % Limb>>

\* The spacing of doubles around an exact sum, in units of 2^-55: a double
\* has 53 significant bits, so in [2^k, 2^(k+1)) the spacing is 2^(k-52).
Ulp(s) ==
    IF s[1] >= 131072 THEN 32
    ELSE IF s[1] >= 65536 THEN 16
    ELSE IF s[1] >= 32768 THEN 8
    ELSE IF s[1] >= 16384 THEN 4
    ELSE IF s[1] >= 8192 THEN 2
    ELSE 1

\* IEEE-754 addition: the exact sum rounded to nearest, ties to even.
FAdd(x, y) ==
    LET s == Normalize(x[1] + y[1], x[2] + y[2], x[3] + y[3])
        u == Ulp(s)
        r == s[3] % u
        q == s[3] \div u
        up == \/ 2 * r > u
              \/ 2 * r = u /\ q % 2 = 1
    IN  IF r = 0 THEN s
        ELSE IF up THEN Normalize(s[1], s[2], s[3] - r + u)
        ELSE <<s[1], s[2], s[3] - r>>

(***************************************************************************)
(* Construction: MqttClient.__init__.                                      *)
(***************************************************************************)
MsgKeys == {"topic", "payload", "qos", "retain"}

\* The value __init__ gives a key the caller's dict lacks.
MsgDefault(k) ==
    CASE k = "payload" -> None
      [] k = "qos"     -> PInt(0)
      [] k = "retain"  -> Bool(FALSE)
      [] OTHER         -> None

\* The four `if key not in message: message[key] = default` statements.
FillMessage(m) ==
    Dict([k \in DOMAIN m.v \cup {"payload", "qos", "retain"} |->
            IF k \in DOMAIN m.v THEN m.v[k] ELSE MsgDefault(k)])

\* The message __init__ builds when none is given.
DefaultMessage(client_id, payload) ==
    Dict([k \in MsgKeys |->
            CASE k = "topic"   -> Str("clients/" \o PyStr(client_id) \o "/connected")
              [] k = "payload" -> Str(payload)
              [] k = "qos"     -> PInt(1)
              [] OTHER         -> Bool(TRUE)])

\* `if message: check topic, fill` followed by `if not message: default`.
MessageOrDefault(m, client_id, payload) ==
    IF Truthy(m) THEN FillMessage(m) ELSE DefaultMessage(client_id, payload)

\* Whether `if message: if 'topic' not in message: raise` raises.
MissingTopic(m) == Truthy(m) /\ "topic" \notin DOMAIN m.v

\* A variant that defaults the flag only when it is absent.
ThreadedFlagAsGiven(threaded) == IF threaded = None THEN Bool(TRUE) ELSE threaded

\* `self.threaded = threaded or True`.
ThreadedFlag(threaded) == PyOr(threaded, Bool(TRUE))

\* A variant that accepts every pair of credentials.
PasswordUnchecked(username, password) == FALSE

\* `if (password and not username): raise`.
PasswordWithoutUsername(username, password) ==
    Truthy(password) /\ ~Truthy(username)

NoSelf == [constructed |-> FALSE]

\* __init__(a): the error raised, or the fields of the new object.
MqttClientInit(a) ==
    IF PasswordWithoutUsername(a.username, a.password)
    THEN [err |-> "AttributeError: Must provide username if using password",
          self |-> NoSelf]
    ELSE IF MissingTopic(a.birth_message)
    THEN [err |-> "AttributeError: birth_message must have topic key",
          self |-> NoSelf]
    ELSE IF MissingTopic(a.will_message)
    THEN [err |-> "AttributeError: will_message must have topic key",
          self |-> NoSelf]
    ELSE [err |-> "",
          self |-> [constructed   |-> TRUE,
                    on_connect    |-> a.on_connect,
                    on_disconnect |-> a.on_disconnect,
                    broker_host   |-> PyOr(a.broker_host, Str("127.0.0.1")),
                    broker_port   |-> PyOr(a.broker_port, PInt(1883)),
                    client_id     |-> a.client_id,
                    username      |-> a.username,
                    password      |-> a.password,
                    birth_message |-> MessageOrDefault(a.birth_message, a.client_id, "1"),
                    will_message  |-> MessageOrDefault(a.will_message, a.client_id, "0"),
                    threaded      |-> ThreadedFlag(a.threaded)]]

(***************************************************************************)
(* State.                                                                  *)
(***************************************************************************)
VARIABLES
    args,               \* the arguments __init__ is called with
    kind,               \* how the engine delivers its connect event
    self,               \* the fields __init__ fixes (configuration)
    _connected,         \* self._connected
    _client,            \* self._client: 0 is None, else the engine instance
    _subscribe_topics,  \* self._subscribe_topics: topic -> callback
    pc,                 \* the caller thread: new, failed, idle, spin, blocked
    call,               \* the caller's current (or last) call
    engines,            \* the engine instances created so far
    log,                \* the engine's call log since the caller's latest call began
    epc,                \* the engine thread: the handler it is inside
    ev,                 \* the engine's current (or last) event
    nCalls,             \* calls made
    nEvents             \* events delivered

vars == <<args, kind, self, _connected, _client, _subscribe_topics, pc, call,
          engines, log, epc, ev, nCalls, nEvents>>

Topics == {"a/b", "a/c"}
Callbacks == {"cb1", "cb2"}
Messages == {"hello"}
QosLevels == {0, 1}

\* immediate: the connect event is delivered inside loop_start (a simulated
\*   engine that signals connect at once); never: no connect event at all;
\*   async: the engine's own thread delivers events at any later time.
\* The simulated engines deliver further events between the caller's calls.
Kinds == {"immediate", "never", "async"}

(***************************************************************************)
(* Constructor arguments.                                                  *)
(***************************************************************************)
MsgValue(k, topic) ==
    CASE k = "topic"   -> Str(topic)
      [] k = "payload" -> Str("p")
      [] k = "qos"     -> PInt(2)
      [] OTHER         -> Bool(TRUE)

\* A caller's message dict holding exactly the keys F.
MsgOf(F, topic) == Dict([k \in F |-> MsgValue(k, topic)])

BaseArgs ==
    [on_connect |-> None, on_disconnect |-> None, broker_host |-> None,
     broker_port |-> None, client_id |-> None, username |-> None,
     password |-> None, birth_message |-> None, will_message |-> None,
     threaded |-> None]

HookArgs ==
    [BaseArgs EXCEPT !.on_connect = Func("hook_c"),
                     !.on_disconnect = Func("hook_d"),
                     !.client_id = Str("dev1"),
                     !.will_message = MsgOf({"topic", "qos"}, "t/will")]

\* The arguments of the lifecycle specification: one variation at a time.
ArgsSmall ==
    {BaseArgs}
    \cup {[BaseArgs EXCEPT !.threaded = Bool(b)] : b \in BOOLEAN}
    \cup {[BaseArgs EXCEPT !.username = u, !.password = p] :
            u \in {None, Str(""), Str("user")}, p \in {None, Str("pw")}}
    \cup {[BaseArgs EXCEPT !.password = Str("")]}
    \cup {[BaseArgs EXCEPT !.birth_message = MsgOf(F, "t/birth")] :
            F \in {{}, {"payload"}, {"topic"}, MsgKeys}}
    \cup {HookArgs}

\* The runs explored: a simulated engine with each of these arguments, a
\* threaded engine with the hooks set.
Scenarios ==
    (ArgsSmall \X {"immediate", "never"}) \cup {<<HookArgs, "async">>}

\* The arguments of the construction specification: every combination.
ArgsAll ==
    [on_connect    : {None, Func("hook_c")},
     on_disconnect : {None},
     broker_host   : {None, Str("broker")},
     broker_port   : {None, PInt(8883)},
     client_id     : {None, Str("dev1")},
     username      : {None, Str(""), Str("user")},
     password      : {None, Str(""), Str("pw")},
     birth_message : {None} \cup {MsgOf(F, "t/birth") : F \in SUBSET MsgKeys},
     will_message  : {None} \cup {MsgOf(F, "t/will") : F \in SUBSET MsgKeys},
     threaded      : {None, Bool(TRUE), Bool(FALSE)}]

(***************************************************************************)
(* Records of the caller's call and of the engine's event.                 *)
(***************************************************************************)
NoCall ==
    [op |-> "", topic |-> "", msg |-> "", qos |-> 0, ret |-> "",
     connected0 |-> FALSE, client0 |-> 0, callback0 |-> "",
     seconds_passed |-> FloatZero, polls |-> 0]

\* The table's entry for a topic, "" when it has none.
EntryOf(topic) ==
    IF topic \in DOMAIN _subscribe_topics THEN _subscribe_topics[topic] ELSE ""

\* A call as it starts: what was called, and the state it started in.
Begin(op, topic, msg, qos) ==
    [op |-> op, topic |-> topic, msg |-> msg, qos |-> qos, ret |-> "",
     connected0 |-> _connected, client0 |-> _client,
     callback0 |-> IF op = "subscribe" THEN EntryOf(topic) ELSE "",
     seconds_passed |-> FloatZero, polls |-> 0]

\* The call log is kept from the start of the caller's latest call on: a
\* call starts a new window of it.
NewWindow == <<>>

Idle == [h |-> "", eng |-> 0, topic |-> ""]

NoEv == [h |-> "", eng |-> 0, args |-> <<>>, invoked |-> <<>>, err |-> "",
         sync |-> FALSE]

\* The arguments the engine passes its handlers.
ConnectArgs(e) ==
    <<[t |-> "client", v |-> e], [t |-> "userdata"], [t |-> "flags"],
      [t |-> "rc", v |-> 0]>>
DisconnectArgs(e) ==
    <<[t |-> "client", v |-> e], [t |-> "userdata"], [t |-> "rc", v |-> 0]>>
MessageArgs(e, topic) ==
    <<[t |-> "client", v |-> e], [t |-> "userdata"],
      [t |-> "message", topic |-> topic, payload |-> "m"]>>

Entry(e, op, a) == [eng |-> e, op |-> op, args |-> a]

Init ==
    /\ \E sc \in Scenarios : args = sc[1] /\ kind = sc[2]
    /\ self = NoSelf
    /\ _connected = FALSE
    /\ _client = 0
    /\ _subscribe_topics = <<>>
    /\ pc = "new"
    /\ call = NoCall
    /\ engines = <<>>
    /\ log = <<>>
    /\ epc = Idle
    /\ ev = NoEv
    /\ nCalls = 0
    /\ nEvents = 0

\* x = MqttClient(**args)
Construct ==
    /\ pc = "new"
    /\ LET r == MqttClientInit(args)
       IN  /\ self' = r.self
           /\ pc' = IF r.err = "" THEN "idle" ELSE "failed"
           /\ call' = [NoCall EXCEPT !.op = "__init__", !.ret = r.err]
    /\ _connected' = FALSE
    /\ _client' = 0
    /\ _subscribe_topics' = <<>>
    /\ UNCHANGED <<args, kind, engines, log, epc, ev, nCalls, nEvents>>

(***************************************************************************)
(* The engine event handlers: _on_connect, _on_disconnect, _on_message.    *)
(***************************************************************************)
\* A variant that publishes the birth message without its qos and retain.
BirthEntryTopicPayload(c) ==
    LET m == self.birth_message.v
    IN  Entry(c, "publish", <<m["topic"], m["payload"]>>)

\* self._client.publish(topic=..., payload=..., qos=..., retain=...)
BirthEntry(c) ==
    LET m == self.birth_message.v
    IN  Entry(c, "publish", <<m["topic"], m["payload"], m["qos"], m["retain"]>>)

\* `if self.birth_message: self._client.publish(...)` with self._client = c
\* and the log lg: the log afterwards and the error raised, if any.
OnConnectPublish(c, lg) ==
    IF ~Truthy(self.birth_message) THEN [log |-> lg, err |-> ""]
    ELSE IF c = 0 THEN [log |-> lg, err |-> "AttributeError"]
    ELSE [log |-> Append(lg, BirthEntry(c)), err |-> ""]

\* `if hook: hook(*args, **kwargs)`, not reached after an error.
HookCalls(hook, a, err) ==
    IF err = "" /\ Truthy(hook) THEN <<[fn |-> hook.v, args |-> a]>> ELSE <<>>

\* The value _on_connect writes to self._connected.
OnConnectState == TRUE

\* The value _on_disconnect writes to self._connected.
OnDisconnectState == FALSE

\* A variant that takes every topic for a subscribed one.
SubscribedAlways(topic) == TRUE

\* `if message.topic in self._subscribe_topics`
Subscribed(topic) == topic \in DOMAIN _subscribe_topics

\* `self._subscribe_topics[message.topic](client, userdata, message)`:
\* the callback invoked, or the KeyError of a topic no longer there.
Dispatch(topic, a) ==
    IF topic \in DOMAIN _subscribe_topics
    THEN [invoked |-> <<[fn |-> _subscribe_topics[topic], args |-> a]>>, err |-> ""]
    ELSE [invoked |-> <<>>, err |-> "KeyError"]

\* _on_message run from start to end.
OnMessageBody(topic, a) ==
    IF Subscribed(topic) THEN Dispatch(topic, a)
    ELSE [invoked |-> <<>>, err |-> ""]

Running(e) == engines[e].loop = "running"

\* Whether the engine may deliver an event now: its own thread does at any
\* time, a simulated engine is driven between the caller's calls.
MayDeliver(e) ==
    /\ pc \in {"idle", "spin"}
    /\ nEvents < MaxEvents
    /\ epc = Idle
    /\ e \in 1..Len(engines)
    /\ Running(e)
    /\ (kind /= "async" => pc = "idle")

Event(h, e, a, invoked, err, sync) ==
    [h |-> h, eng |-> e, args |-> a, invoked |-> invoked, err |-> err,
     sync |-> sync]

\* The engine thread enters _on_connect: self._connected = True.
OnConnectSet(e) ==
    /\ kind = "async"
    /\ MayDeliver(e)
    /\ engines[e].link = "connecting"
    /\ _connected' = OnConnectState
    /\ engines' = [engines EXCEPT ![e].link = "up"]
    /\ epc' = [h |-> "connect", eng |-> e, topic |-> ""]
    /\ ev' = Event("connect", e, ConnectArgs(e), <<>>, "", FALSE)
    /\ nEvents' = nEvents + 1
    /\ UNCHANGED <<args, kind, self, _client, _subscribe_topics, pc, call, log, nCalls>>

\* The rest of _on_connect: the birth message, then the caller's hook.
\* The handler's record is written when it ends: the caller's thread may
\* have had an event of its own delivered meanwhile.
OnConnectRest ==
    /\ epc.h = "connect"
    /\ LET r == OnConnectPublish(_client, log)
           a == ConnectArgs(epc.eng)
       IN  /\ log' = r.log
           /\ ev' = Event("connect", epc.eng, a,
                          HookCalls(self.on_connect, a, r.err), r.err, FALSE)
    /\ epc' = Idle
    /\ UNCHANGED <<args, kind, self, _connected, _client, _subscribe_topics, pc,
                   call, engines, nCalls, nEvents>>

\* _on_disconnect, on the engine's disconnect event.
OnDisconnect(e) ==
    /\ MayDeliver(e)
    /\ engines[e].link = "up"
    /\ _connected' = OnDisconnectState
    /\ engines' = [engines EXCEPT ![e].link = "down"]
    /\ ev' = Event("disconnect", e, DisconnectArgs(e),
                   HookCalls(self.on_disconnect, DisconnectArgs(e), ""), "", FALSE)
    /\ nEvents' = nEvents + 1
    /\ UNCHANGED <<args, kind, self, _client, _subscribe_topics, pc, call, log,
                   epc, nCalls>>

\* _on_message on a simulated engine: the handler runs from start to end.
OnMessage(e, topic) ==
    /\ kind /= "async"
    /\ MayDeliver(e)
    /\ engines[e].link = "up"
    /\ LET r == OnMessageBody(topic, MessageArgs(e, topic))
       IN  ev' = Event("message", e, MessageArgs(e, topic), r.invoked, r.err, FALSE)
    /\ nEvents' = nEvents + 1
    /\ UNCHANGED <<args, kind, self, _connected, _client, _subscribe_topics, pc,
                   call, engines, log, epc, nCalls>>

\* _on_message on the engine's thread, first statement: the membership test.
OnMessageTest(e, topic) ==
    /\ kind = "async"
    /\ MayDeliver(e)
    /\ engines[e].link = "up"
    /\ ev' = Event("message", e, MessageArgs(e, topic), <<>>, "", FALSE)
    /\ epc' = IF Subscribed(topic)
              THEN [h |-> "message", eng |-> e, topic |-> topic]
              ELSE Idle
    /\ nEvents' = nEvents + 1
    /\ UNCHANGED <<args, kind, self, _connected, _client, _subscribe_topics, pc,
                   call, engines, log, nCalls>>

\* _on_message on the engine's thread, second statement: look up and call.
OnMessageCall ==
    /\ epc.h = "message"
    /\ LET a == MessageArgs(epc.eng, epc.topic)
           r == Dispatch(epc.topic, a)
       IN  ev' = Event("message", epc.eng, a, r.invoked, r.err, FALSE)
    /\ epc' = Idle
    /\ UNCHANGED <<args, kind, self, _connected, _client, _subscribe_topics, pc,
                   call, engines, log, nCalls, nEvents>>

(***************************************************************************)
(* The caller-facing methods.                                              *)
(***************************************************************************)
\* The calls explored in one run: one fewer with the threaded engine, whose
\* events interleave with every turn of the spin-wait.
CallBudget == IF kind = "async" THEN MaxCalls - 1 ELSE MaxCalls

CallerReady == pc = "idle" /\ nCalls < CallBudget

\* A variant of connect that starts a connection whatever the state.
ConnectGuardAlways == TRUE

\* connect: `if not self._connected`
ConnectGuard == ~_connected

\* A variant of publish that never connects first.
PublishGuardNever == FALSE

\* publish: `if not self._connected`
PublishGuard == ~_connected

\* A variant of disconnect that stops the engine without testing for one.
DisconnectGuardAlways == TRUE

\* disconnect: `if self._client`
DisconnectGuard == _client /= 0

\* A variant of disconnect that clears self._connected itself.
DisconnectStateCleared == FALSE

\* The value of self._connected when disconnect() returns and the engine
\* delivered no event meanwhile: disconnect() does not assign it.
DisconnectState == _connected

\* The engine calls of _start_client on the new instance e, in order.
StartEntries(e) ==
    <<Entry(e, "Client", <<self.client_id>>)>>
    \o (IF Truthy(self.will_message)
        THEN LET w == self.will_message.v
             IN  <<Entry(e, "will_set",
                         <<w["topic"], w["payload"], w["qos"], w["retain"]>>)>>
        ELSE <<>>)
    \o (IF Truthy(self.username)
        THEN <<Entry(e, "username_pw_set", <<self.username, self.password>>)>>
        ELSE <<>>)
    \o <<Entry(e, "connect", <<self.broker_host, self.broker_port>>)>>
    \o <<Entry(e, IF Truthy(self.threaded) THEN "loop_start" ELSE "loop_forever", <<>>)>>

\* A variant that gives up after 4 seconds.
TimedOutEarly(seconds_passed) == FGreater(seconds_passed, ToFloat(TimeoutSeconds - 1))

\* `if seconds_passed > timeout: raise ConnectionError`
TimedOut(seconds_passed) == FGreater(seconds_passed, ToFloat(TimeoutSeconds))

\* _start_client up to the spin-wait, for the call c.  A simulated engine
\* that signals connect at once runs _on_connect inside loop_start.
StartClient(c) ==
    LET e == Len(engines) + 1
        lg == NewWindow \o StartEntries(e)
        sync == kind = "immediate" /\ Truthy(self.threaded)
        r == OnConnectPublish(e, lg)
    IN  /\ _client' = e
        /\ engines' = Append(engines, [loop |-> "running",
                                       link |-> IF sync THEN "up" ELSE "connecting",
                                       subs |-> {}])
        /\ call' = c
        /\ pc' = IF Truthy(self.threaded) THEN "spin" ELSE "blocked"
        /\ _connected' = IF sync THEN OnConnectState ELSE _connected
        /\ log' = IF sync THEN r.log ELSE lg
        /\ ev' = IF sync
                 THEN Event("connect", e, ConnectArgs(e),
                            HookCalls(self.on_connect, ConnectArgs(e), r.err),
                            r.err, TRUE)
                 ELSE ev

\* self._client.publish(topic, message): the log afterwards and the outcome.
PublishCall(c, lg, topic, msg) ==
    IF c = 0 THEN [log |-> lg, ret |-> "AttributeError"]
    ELSE [log |-> Append(lg, Entry(c, "publish", <<Str(topic), Str(msg)>>)),
          ret |-> "ok"]

\* connect()
Connect ==
    /\ CallerReady
    /\ nCalls' = nCalls + 1
    /\ IF ConnectGuard
       THEN StartClient(Begin("connect", "", "", 0))
       ELSE /\ call' = [Begin("connect", "", "", 0) EXCEPT !.ret = "ok"]
            /\ log' = NewWindow
            /\ UNCHANGED <<_connected, _client, pc, engines, ev>>
    /\ UNCHANGED <<args, kind, self, _subscribe_topics, epc, nEvents>>

\* publish(topic, message) up to the spin-wait of the connect() it may run.
Publish(topic, msg) ==
    /\ CallerReady
    /\ nCalls' = nCalls + 1
    /\ IF PublishGuard /\ ConnectGuard
       THEN StartClient(Begin("publish", topic, msg, 0))
       ELSE LET r == PublishCall(_client, NewWindow, topic, msg)
            IN  /\ call' = [Begin("publish", topic, msg, 0) EXCEPT !.ret = r.ret]
                /\ log' = r.log
                /\ UNCHANGED <<_connected, _client, pc, engines, ev>>
    /\ UNCHANGED <<args, kind, self, _subscribe_topics, epc, nEvents>>

\* One turn of `while not self.connected`: return, raise, or sleep 0.1 and
\* count it; publish() goes on to publish once its connect() has returned.
Spin ==
    /\ pc = "spin"
    /\ IF _connected
       THEN LET r == IF call.op = "publish"
                     THEN PublishCall(_client, log, call.topic, call.msg)
                     ELSE [log |-> log, ret |-> "ok"]
            IN  /\ call' = [call EXCEPT !.ret = r.ret,
                                         !.seconds_passed = FloatZero,
                                         !.polls = 0]
                /\ log' = r.log
                /\ pc' = "idle"
       ELSE IF TimedOut(call.seconds_passed)
       THEN /\ call' = [call EXCEPT !.ret = "ConnectionError"]
            /\ pc' = "idle"
            /\ log' = log
       ELSE /\ call' = [call EXCEPT !.seconds_passed = FAdd(@, PollInterval),
                                    !.polls = @ + 1]
            /\ pc' = "spin"
            /\ log' = log
    /\ UNCHANGED <<args, kind, self, _connected, _client, _subscribe_topics,
                   engines, epc, ev, nCalls, nEvents>>

\* disconnect().  loop_stop joins the engine's thread, so it returns once a
\* handler that thread is inside has ended; the engine may deliver its
\* disconnect event from inside its disconnect call, or not at all.  A
\* method called on None raises AttributeError.
Disconnect ==
    /\ CallerReady
    /\ nCalls' = nCalls + 1
    /\ _client' = 0
    /\ IF DisconnectGuard /\ _client = 0
       THEN /\ call' = [Begin("disconnect", "", "", 0) EXCEPT !.ret = "AttributeError"]
            /\ _connected' = DisconnectState
            /\ log' = NewWindow
            /\ UNCHANGED <<engines, ev>>
       ELSE IF DisconnectGuard
       THEN /\ epc.eng /= _client
            /\ call' = [Begin("disconnect", "", "", 0) EXCEPT !.ret = "ok"]
            /\ log' = NewWindow
                       \o <<Entry(_client, "loop_stop", <<>>),
                            Entry(_client, "disconnect", <<>>)>>
            /\ engines' = [engines EXCEPT ![_client].loop = "stopped",
                                          ![_client].link = "closed"]
            /\ \E deliver \in BOOLEAN :
                /\ deliver => engines[_client].link = "up"
                /\ _connected' = IF deliver THEN OnDisconnectState ELSE DisconnectState
                /\ ev' = IF deliver
                         THEN Event("disconnect", _client, DisconnectArgs(_client),
                                    HookCalls(self.on_disconnect,
                                              DisconnectArgs(_client), ""),
                                    "", TRUE)
                         ELSE ev
       ELSE /\ call' = [Begin("disconnect", "", "", 0) EXCEPT !.ret = "ok"]
            /\ _connected' = DisconnectState
            /\ log' = NewWindow
            /\ UNCHANGED <<engines, ev>>
    /\ UNCHANGED <<args, kind, self, _subscribe_topics, pc, epc, nEvents>>

\* What an engine call does: it returns (""), or raises an error of its own.
EngineOutcomes == {"", "ValueError"}

\* What the caller gets from a call that ended with err.
Outcome(err) == IF err = "" THEN "ok" ELSE err

\* The table with topic's entry set to cb.
TableWith(topic, cb) ==
    [t \in DOMAIN _subscribe_topics \cup {topic} |->
        IF t = topic THEN cb ELSE _subscribe_topics[t]]

\* The table without topic's entry.
TableWithout(topic) ==
    [t \in DOMAIN _subscribe_topics \ {topic} |-> _subscribe_topics[t]]

\* A variant that keeps the callback a topic already has.
SubscribeTableKeep(topic, cb, err) ==
    IF err = "" /\ topic \notin DOMAIN _subscribe_topics
    THEN TableWith(topic, cb)
    ELSE _subscribe_topics

\* A variant that records the callback before it calls the engine.
SubscribeTableFirst(topic, cb, err) == TableWith(topic, cb)

\* `self._client.subscribe(topic, qos)` then
\* `self._subscribe_topics[topic] = callback`: the table when subscribe()
\* ends, the assignment not being reached when the line before it raised.
SubscribeTable(topic, cb, err) ==
    IF err = "" THEN TableWith(topic, cb) ELSE _subscribe_topics

\* `self._client.unsubscribe(topic)` then `del self._subscribe_topics[topic]`.
UnsubscribeTable(topic, err) ==
    IF err = "" THEN TableWithout(topic) ELSE _subscribe_topics

\* subscribe(topic, callback, qos)
Subscribe(topic, cb, qos) ==
    /\ CallerReady
    /\ nCalls' = nCalls + 1
    /\ IF _client = 0
       THEN /\ call' = [Begin("subscribe", topic, cb, qos) EXCEPT !.ret = "AttributeError"]
            /\ log' = NewWindow
            /\ _subscribe_topics' = SubscribeTable(topic, cb, "AttributeError")
            /\ UNCHANGED engines
       ELSE \E err \in EngineOutcomes :
            /\ call' = [Begin("subscribe", topic, cb, qos) EXCEPT !.ret = Outcome(err)]
            /\ log' = Append(NewWindow,
                             Entry(_client, "subscribe", <<Str(topic), PInt(qos)>>))
            /\ engines' = [engines EXCEPT ![_client].subs =
                                              IF err = "" THEN @ \cup {topic} ELSE @]
            /\ _subscribe_topics' = SubscribeTable(topic, cb, err)
    /\ UNCHANGED <<args, kind, self, _connected, _client, pc, epc, ev, nEvents>>

\* A variant of unsubscribe that calls the engine for any topic.
UnsubscribeGuardAlways(topic) == TRUE

\* unsubscribe: `if topic in self._subscribe_topics`
UnsubscribeGuard(topic) == Subscribed(topic)

\* unsubscribe(topic)
Unsubscribe(topic) ==
    /\ CallerReady
    /\ nCalls' = nCalls + 1
    /\ IF ~UnsubscribeGuard(topic)
       THEN /\ call' = [Begin("unsubscribe", topic, "", 0) EXCEPT !.ret = "ok"]
            /\ log' = NewWindow
            /\ UNCHANGED <<engines, _subscribe_topics>>
       ELSE IF _client = 0
       THEN /\ call' = [Begin("unsubscribe", topic, "", 0) EXCEPT !.ret = "AttributeError"]
            /\ log' = NewWindow
            /\ _subscribe_topics' = UnsubscribeTable(topic, "AttributeError")
            /\ UNCHANGED engines
       ELSE \E err \in EngineOutcomes :
            /\ call' = [Begin("unsubscribe", topic, "", 0) EXCEPT !.ret = Outcome(err)]
            /\ log' = Append(NewWindow, Entry(_client, "unsubscribe", <<Str(topic)>>))
            /\ engines' = [engines EXCEPT ![_client].subs =
                                              IF err = "" THEN @ \ {topic} ELSE @]
            /\ _subscribe_topics' = UnsubscribeTable(topic, err)
    /\ UNCHANGED <<args, kind, self, _connected, _client, pc, epc, ev, nEvents>>

(***************************************************************************)
(* Specifications.                                                         *)
(***************************************************************************)
Next ==
    \/ Construct
    \/ Connect
    \/ Spin
    \/ Disconnect
    \/ \E t \in Topics, cb \in Callbacks, q \in QosLevels : Subscribe(t, cb, q)
    \/ \E t \in Topics : Unsubscribe(t)
    \/ \E t \in Topics, m \in Messages : Publish(t, m)
    \/ \E e \in 1..Len(engines) : OnConnectSet(e)
    \/ OnConnectRest
    \/ \E e \in 1..Len(engines) : OnDisconnect(e)
    \/ \E e \in 1..Len(engines), t \in Topics : OnMessage(e, t)
    \/ \E e \in 1..Len(engines), t \in Topics : OnMessageTest(e, t)
    \/ OnMessageCall

\* The lifecycle of one wrapper, from its construction on.
Spec == Init /\ [][Next]_vars

\* The wrapper on an engine that never delivers an event: only the caller
\* acts.  The caller's thread is always scheduled again, so a thread inside
\* the spin-wait goes on to its next turn.
InitNever == Init /\ kind = "never"

NextCaller ==
    \/ Construct
    \/ Connect
    \/ Spin
    \/ Disconnect
    \/ \E t \in Topics, cb \in Callbacks, q \in QosLevels : Subscribe(t, cb, q)
    \/ \E t \in Topics : Unsubscribe(t)
    \/ \E t \in Topics, m \in Messages : Publish(t, m)

FairSpec == InitNever /\ [][NextCaller]_vars /\ WF_vars(Spin)

\* Construction alone, over every combination of arguments.
InitCtor ==
    /\ args \in ArgsAll
    /\ kind = "never"
    /\ self = NoSelf
    /\ _connected = FALSE
    /\ _client = 0
    /\ _subscribe_topics = <<>>
    /\ pc = "new"
    /\ call = NoCall
    /\ engines = <<>>
    /\ log = <<>>
    /\ epc = Idle
    /\ ev = NoEv
    /\ nCalls = 0
    /\ nEvents = 0

NextCtor == Construct

SpecCtor == InitCtor /\ [][NextCtor]_vars

(***************************************************************************)
(* Properties.                                                             *)
(***************************************************************************)
\* The positions of the calls named op in a call log.
Calls(lg, op) == {i \in 1..Len(lg) : lg[i].op = op}

\* A call is starting in this step.
Calling(op) == nCalls' = nCalls + 1 /\ call'.op = op

\* The birth message as the arguments configure it: the caller's, with the
\* documented defaults for what it leaves out, or the documented default.
BirthConfigured ==
    \/ args.birth_message = None
    \/ args.birth_message.t = "dict" /\ "topic" \in DOMAIN args.birth_message.v

ConfiguredBirth ==
    LET b == args.birth_message
        id == IF args.client_id = None THEN "None" ELSE args.client_id.v
    IN  IF b = None
        THEN <<Str("clients/" \o id \o "/connected"), Str("1"), PInt(1), Bool(TRUE)>>
        ELSE <<b.v["topic"],
               IF "payload" \in DOMAIN b.v THEN b.v["payload"] ELSE None,
               IF "qos" \in DOMAIN b.v THEN b.v["qos"] ELSE PInt(0),
               IF "retain" \in DOMAIN b.v THEN b.v["retain"] ELSE Bool(FALSE)>>

\* The log holds exactly one publish, and it is the configured birth message
\* on the engine instance c.
OneBirthPublish(lg, c) ==
    /\ Cardinality(Calls(lg, "publish")) = 1
    /\ \A i \in Calls(lg, "publish") :
          lg[i] = [eng |-> c, op |-> "publish", args |-> ConfiguredBirth]

\* C1: with an engine that delivers its connect event as soon as the loop
\* is started, connect() on a disconnected wrapper goes through loop_start
\* with connected set and the birth message published, and the first test
\* of its spin-wait returns normally: connected is true and the new
\* engine's call log holds exactly one publish, the configured birth
\* message (topic, payload, qos, retain).
C1_ImmediateConnect ==
    [][/\ (kind = "immediate" /\ BirthConfigured /\ ~_connected /\ Calling("connect"))
          => /\ pc' = "spin"
             /\ _connected'
             /\ _client' /= 0
             /\ OneBirthPublish(log', _client')
       /\ (kind = "immediate" /\ BirthConfigured /\ pc = "spin" /\ call.op = "connect")
          => /\ pc' = "idle"
             /\ call'.ret = "ok"
             /\ _connected'
             /\ OneBirthPublish(log', _client')]_vars

C1_Witness ==
    /\ kind = "immediate"
    /\ args.birth_message = MsgOf({"topic"}, "t/birth")
    /\ pc = "idle"
    /\ call.op = "connect"
    /\ ~call.connected0
    /\ call.ret = "ok"
    /\ _connected
    /\ log[Len(log)] = [eng |-> _client, op |-> "publish",
                        args |-> <<Str("t/birth"), None, PInt(0), Bool(FALSE)>>]

\* C2: with an engine that never delivers a connect event, connect() never
\* returns normally: it always ends, with the connection timeout error,
\* after between 48 and 52 polls of 0.1 time-units (4.8 to 5.2 time-units).
C2_TimeoutBounded ==
    /\ [](kind = "never" /\ call.op = "connect" /\ pc = "idle"
            => /\ call.ret = "ConnectionError"
               /\ call.polls >= 48
               /\ call.polls <= 52)
    /\ [](kind = "never" /\ pc = "spin" => call.polls <= 52)
    /\ ((kind = "never" /\ pc = "spin" /\ call.op = "connect")
            ~> (pc = "idle" /\ call.op = "connect" /\ call.ret = "ConnectionError"))

C2_Witness ==
    /\ kind = "never"
    /\ pc = "idle"
    /\ call.op = "connect"
    /\ call.ret = "ConnectionError"
    /\ call.polls = 51

\* The calls of _start_client that open, connect and start an engine.
ConnectOps == {"Client", "will_set", "username_pw_set", "connect", "loop_start",
               "loop_forever"}

\* The positions of the publish of (topic, msg) by publish(topic, msg).
UserPublishes(lg, topic, msg) ==
    {i \in Calls(lg, "publish") : lg[i].args = <<Str(topic), Str(msg)>>}

\* C3: publish(topic, msg) on a disconnected wrapper runs connect() first:
\* the new engine's Client, connect and loop_start calls are in the log
\* before any publish of (topic, msg), which is issued once when connect()
\* has returned and not at all while it waits or when it fails; publish()
\* on a connected wrapper issues no call that opens or connects an engine.
C3_ConnectThenPublish ==
    call.op = "publish" =>
        LET mine == UserPublishes(log, call.topic, call.msg)
        IN  /\ ~call.connected0 =>
                /\ \E i, j, k \in 1..Len(log) :
                      /\ i < j /\ j < k
                      /\ log[i].op = "Client" /\ log[j].op = "connect"
                      /\ log[k].op = "loop_start"
                      /\ log[i].eng = _client /\ log[j].eng = _client
                      /\ log[k].eng = _client
                      /\ \A p \in mine : k < p /\ log[p].eng = _client
                /\ call.ret = "ok" => Cardinality(mine) = 1
                /\ call.ret /= "ok" => mine = {}
            /\ call.connected0 =>
                \A i \in 1..Len(log) : log[i].op \notin ConnectOps

C3_Witness ==
    /\ call.op = "publish"
    /\ ~call.connected0
    /\ call.ret = "ok"
    /\ pc = "idle"
    /\ UserPublishes(log, call.topic, call.msg) /= {}

\* What a message event on topic t with the arguments a must invoke, given
\* the table as it is when the event arrives.
ExpectedInvoked(t, a) ==
    IF t \in DOMAIN _subscribe_topics
    THEN <<[fn |-> _subscribe_topics[t], args |-> a]>>
    ELSE <<>>

\* C4: the table holds exactly the topics subscribed and not unsubscribed
\* since (a subscribe that succeeds sets the topic's entry to its callback,
\* an unsubscribe that succeeds removes the topic's entry, nothing else
\* changes the table), and a message event on topic t invokes the callback
\* the table holds for t, once, with the event's arguments, if t is in the
\* table, and nothing if it is not, without an error.  On the engine's
\* thread the same holds of the handler's two statements: the test ends
\* the handler silently for a topic not in the table, the call invokes
\* the callback the table holds then.
C4_Dispatch ==
    [][/\ (Calling("subscribe") /\ call'.ret = "ok")
          => /\ DOMAIN _subscribe_topics' = DOMAIN _subscribe_topics \cup {call'.topic}
             /\ _subscribe_topics'[call'.topic] = call'.msg
             /\ \A t \in DOMAIN _subscribe_topics \ {call'.topic} :
                   _subscribe_topics'[t] = _subscribe_topics[t]
       /\ (Calling("unsubscribe") /\ call'.ret = "ok")
          => /\ DOMAIN _subscribe_topics' = DOMAIN _subscribe_topics \ {call'.topic}
             /\ \A t \in DOMAIN _subscribe_topics' :
                   _subscribe_topics'[t] = _subscribe_topics[t]
       /\ ~(Calling("subscribe") \/ Calling("unsubscribe"))
          => _subscribe_topics' = _subscribe_topics
       /\ (kind /= "async" /\ nEvents' = nEvents + 1 /\ ev'.h = "message")
          => /\ ev'.args[3].topic \in Topics
             /\ ev'.invoked = ExpectedInvoked(ev'.args[3].topic, ev'.args)
             /\ ev'.err = ""
       /\ (kind = "async" /\ nEvents' = nEvents + 1 /\ ev'.h = "message"
             /\ ev'.args[3].topic \notin DOMAIN _subscribe_topics)
          => /\ epc' = Idle
             /\ ev'.invoked = <<>>
             /\ ev'.err = ""
       /\ (epc.h = "message" /\ epc' = Idle /\ epc.topic \in DOMAIN _subscribe_topics)
          => /\ ev'.invoked = ExpectedInvoked(epc.topic, ev'.args)
             /\ ev'.err = ""]_vars

C4_Witness ==
    /\ ev.h = "message"
    /\ epc = Idle
    /\ ev.args[3].topic = "a/b"
    /\ "a/b" \in DOMAIN _subscribe_topics
    /\ ev.invoked = <<[fn |-> "cb2", args |-> ev.args]>>
    /\ _subscribe_topics["a/b"] = "cb2"

C6_ConnectIdempotent ==
    [][(Calling("connect") /\ _connected)
          => /\ log' = <<>>
             /\ call'.ret = "ok"
             /\ pc' = "idle"
             /\ _client' = _client
             /\ engines' = engines
             /\ _connected' = _connected
             /\ _subscribe_topics' = _subscribe_topics
             /\ self' = self
             /\ ev' = ev]_vars

C6_Witness ==
    /\ call.op = "connect"
    /\ call.connected0
    /\ call.ret = "ok"
    /\ _connected
    /\ _client /= 0
    /\ _client = call.client0

\* The handler h of an engine event was entered in this step.
HandlerRan(h) == ev' /= ev /\ ev'.h = h

\* C7: connected becomes true only in a step that runs the on-connect
\* handler and false only in a step that runs the on-disconnect handler; a
\* disconnect() during which the engine delivers no event leaves it as it
\* was.
C7_ConnectedByEventsOnly ==
    [][/\ (_connected' /= _connected /\ _connected') => HandlerRan("connect")
       /\ (_connected' /= _connected /\ ~_connected') => HandlerRan("disconnect")
       /\ (pc /= "new" /\ nCalls' = nCalls + 1 /\ ev' = ev) => _connected' = _connected
       /\ (pc = "spin" /\ ev' = ev) => _connected' = _connected]_vars

C7_Witness ==
    /\ call.op = "disconnect"
    /\ call.client0 /= 0
    /\ call.connected0
    /\ _connected
    /\ _client = 0
    /\ ev.h = "connect"

\* A message the caller supplied that has no topic.
SuppliedWithoutTopic(m) == m /= None /\ "topic" \notin DOMAIN m.v

ConfigurationErrors ==
    {"AttributeError: Must provide username if using password",
     "AttributeError: birth_message must have topic key",
     "AttributeError: will_message must have topic key"}

\* C8: construction with a birth or will message that was supplied and
\* holds no topic (whatever other keys it holds, none included) fails with
\* the configuration error and produces no wrapper.
C8_MissingTopicRejected ==
    (/\ pc /= "new"
     /\ \/ SuppliedWithoutTopic(args.birth_message)
        \/ SuppliedWithoutTopic(args.will_message))
    => /\ pc = "failed"
       /\ call.ret \in ConfigurationErrors
       /\ self = NoSelf

\* A credential the caller gave: a string that is not empty.
IsSet(x) == x /= None /\ x /= Str("")

\* C9: construction with a password and no username fails with the
\* configuration error; with both it succeeds; every connect call to an
\* engine is preceded, on that engine, by one username_pw_set with exactly
\* the configured username and password when a username is configured, and
\* no username_pw_set is ever issued when none is.
C9_Credentials ==
    /\ (pc /= "new" /\ IsSet(args.password) /\ ~IsSet(args.username))
       => /\ pc = "failed"
          /\ call.ret = "AttributeError: Must provide username if using password"
          /\ self = NoSelf
    /\ (pc /= "new" /\ IsSet(args.password) /\ IsSet(args.username))
       => /\ pc /= "failed"
          /\ self /= NoSelf
          /\ self.username = args.username
          /\ self.password = args.password
    /\ (pc \notin {"new", "failed"} /\ IsSet(args.username))
       => /\ \A j \in Calls(log, "connect") :
                \E i \in Calls(log, "username_pw_set") :
                    /\ i < j
                    /\ log[i].eng = log[j].eng
          /\ \A i \in Calls(log, "username_pw_set") :
                log[i].args = <<args.username, args.password>>
          /\ Cardinality(Calls(log, "username_pw_set"))
                = Cardinality(Calls(log, "connect"))
    /\ (pc \notin {"new", "failed"} /\ ~IsSet(args.username))
       => Calls(log, "username_pw_set") = {}

C9_Witness ==
    /\ args.username = Str("user")
    /\ args.password = Str("pw")
    /\ pc = "idle"
    /\ call.op = "connect"
    /\ Len(log) >= 4
    /\ log[3] = [eng |-> _client, op |-> "username_pw_set",
                 args |-> <<Str("user"), Str("pw")>>]
    /\ log[4].op = "connect"

BirthArgs ==
    LET m == self.birth_message.v
    IN  <<m["topic"], m["payload"], m["qos"], m["retain"]>>

\* What the on_connect hook must have been called with for the event
\* arguments a: once with a when a hook is configured, not at all otherwise.
ExpectedHook(a) ==
    IF args.on_connect = None THEN <<>>
    ELSE <<[fn |-> args.on_connect.v, args |-> a]>>

\* C11: every engine connect event is handled in the order: connected is
\* set to true, then the birth message is published on an engine, once,
\* then the on_connect hook, if any, is called once with the event's
\* arguments; the hook is called with connected true and the birth publish
\* issued.  Stated of the handler run inside loop_start, and of the two
\* steps of the handler on the engine's thread.
C11_OnConnectOrder ==
    [][/\ (HandlerRan("connect") /\ ev'.sync)
          => /\ _connected'
             /\ ev'.err = ""
             /\ Cardinality({i \in Calls(log', "publish") :
                                log'[i].args = BirthArgs'}) = 1
             /\ ev'.invoked = ExpectedHook(ev'.args)
       /\ (nEvents' = nEvents + 1 /\ ev'.h = "connect")
          => /\ _connected'
             /\ epc'.h = "connect"
             /\ ev'.invoked = <<>>
             /\ log' = log
       /\ (epc.h = "connect" /\ epc' /= epc)
          => /\ _connected
             /\ _connected'
             /\ ev'.err = ""
             /\ \E c \in 1..Len(engines) :
                   log' = Append(log, Entry(c, "publish", BirthArgs))
             /\ ev'.args = ConnectArgs(epc.eng)
             /\ ev'.invoked = ExpectedHook(ev'.args)]_vars

\* The table lost exactly topic's entry in this step.
RemovedOnly(topic) ==
    /\ DOMAIN _subscribe_topics' = DOMAIN _subscribe_topics \ {topic}
    /\ \A t \in DOMAIN _subscribe_topics' : _subscribe_topics'[t] = _subscribe_topics[t]

\* unsubscribe() of a topic that is not registered does nothing.
UnsubscribeNoOp ==
    (Calling("unsubscribe") /\ call'.topic \notin DOMAIN _subscribe_topics)
    => /\ call'.ret = "ok"
       /\ log' = <<>>
       /\ _subscribe_topics' = _subscribe_topics
       /\ _connected' = _connected
       /\ _client' = _client
       /\ engines' = engines

\* C12 as stated: unsubscribe(topic) of a topic not in the table is a
\* no-op (no engine call; table, connected and engine reference
\* unchanged); of a registered topic it issues exactly one engine
\* unsubscribe for the topic, removes exactly its entry and leaves every
\* other entry unchanged.
C12_UnsubscribeAsStated ==
    [][/\ UnsubscribeNoOp
       /\ (Calling("unsubscribe") /\ call'.topic \in DOMAIN _subscribe_topics)
          => /\ Len(log') = 1
             /\ log'[1].op = "unsubscribe"
             /\ log'[1].args = <<Str(call'.topic)>>
             /\ RemovedOnly(call'.topic)]_vars

\* C12, amended: unsubscribe(topic) of a topic not in the table is a no-op
\* (no engine call; table, connected and engine reference unchanged); of
\* a registered topic, on a wrapper that holds an engine reference, it
\* issues exactly one engine unsubscribe for the topic, on that engine,
\* and when that call returns it removes exactly the topic's entry and
\* leaves every other entry unchanged; without an engine reference it
\* issues no engine call and fails.  Connected and the engine reference
\* are unchanged in every case.
C12_Unsubscribe ==
    [][/\ UnsubscribeNoOp
       /\ Calling("unsubscribe")
          => /\ _connected' = _connected
             /\ _client' = _client
             /\ pc' = "idle"
       /\ (Calling("unsubscribe") /\ call'.topic \in DOMAIN _subscribe_topics
             /\ _client /= 0)
          => /\ log' = <<[eng |-> _client, op |-> "unsubscribe",
                           args |-> <<Str(call'.topic)>>]>>
             /\ call'.ret = "ok" => RemovedOnly(call'.topic)
       /\ (Calling("unsubscribe") /\ call'.topic \in DOMAIN _subscribe_topics
             /\ _client = 0)
          => /\ log' = <<>>
             /\ call'.ret = "AttributeError"]_vars

C12_Witness ==
    /\ call.op = "unsubscribe"
    /\ call.topic = "a/b"
    /\ call.ret = "ok"
    /\ _client /= 0
    /\ log = <<[eng |-> _client, op |-> "unsubscribe", args |-> <<Str("a/b")>>]>>
    /\ DOMAIN _subscribe_topics = {"a/c"}
    /\ engines[_client].subs = {"a/c"}

\* A message event on the topic of the caller's latest call arrives, or
\* its handler on the engine's thread looks the callback up, in this step.
MessageLookup(op) ==
    /\ call.op = op
    /\ call.ret = "ok"
    /\ \/ kind /= "async" /\ nEvents' = nEvents + 1 /\ ev'.h = "message"
          /\ ev'.args[3].topic = call.topic
       \/ epc.h = "message" /\ epc' = Idle /\ epc.topic = call.topic

\* C13: a subscribe(t, cb2, q2) that returns on a topic already in the
\* table (subscribed with cb1) leaves a single entry for t, holding cb2,
\* and every other entry as it was; the engine receives one subscribe
\* call (t, q) for every subscribe() that returns, a first one or a
\* repeated one; a message on t after it invokes cb2, once, and nothing
\* else; an unsubscribe(t) that returns leaves no entry for t, and a
\* message on t after it invokes nothing.
C13_Resubscribe ==
    [][/\ (Calling("subscribe") /\ call'.ret = "ok")
          => /\ log' = <<[eng |-> _client, op |-> "subscribe",
                           args |-> <<Str(call'.topic), PInt(call'.qos)>>]>>
             /\ DOMAIN _subscribe_topics' = DOMAIN _subscribe_topics \cup {call'.topic}
             /\ _subscribe_topics'[call'.topic] = call'.msg
             /\ \A t \in DOMAIN _subscribe_topics \ {call'.topic} :
                   _subscribe_topics'[t] = _subscribe_topics[t]
       /\ MessageLookup("subscribe")
          => /\ ev'.invoked = <<[fn |-> call.msg, args |-> ev'.args]>>
             /\ ev'.err = ""
       /\ (Calling("unsubscribe") /\ call'.ret = "ok")
          => call'.topic \notin DOMAIN _subscribe_topics'
       /\ MessageLookup("unsubscribe")
          => ev'.invoked = <<>>]_vars

C13_Witness ==
    /\ call.op = "subscribe"
    /\ call.ret = "ok"
    /\ call.callback0 = "cb1"
    /\ call.msg = "cb2"
    /\ DOMAIN _subscribe_topics = {call.topic}
    /\ _subscribe_topics[call.topic] = "cb2"
    /\ ev.h = "message"
    /\ ev.args[3].topic = call.topic
    /\ ev.invoked = <<[fn |-> "cb2", args |-> ev.args]>>

\* The engine calls of a log that open, connect or start an engine.
Opening(lg) == {i \in 1..Len(lg) : lg[i].op \in ConnectOps}

\* An engine call that opens, connects or starts an engine is issued in
\* this step.
IssuesOpening ==
    \E i \in Opening(log') : ~(i <= Len(log) /\ log[i] = log'[i])

\* The latest engine the wrapper created has had its disconnect event: the
\* connection was dropped and no new attempt was started since.
Dropped == engines /= <<>> /\ engines[Len(engines)].link = "down"

\* What the on_disconnect hook must have been called with.
ExpectedDisconnectHook(a) ==
    IF args.on_disconnect = None THEN <<>>
    ELSE <<[fn |-> args.on_disconnect.v, args |-> a]>>

\* C14: an engine disconnect event sets connected to false and calls the
\* on_disconnect hook, if any, once with the event's arguments, and issues
\* no engine call; an engine is created, connected or started only in a
\* step of connect() or publish(); the connect() that follows a dropped
\* connection starts a fresh attempt (a new engine: Client, connect,
\* loop_start) and is not skipped.
C14_NoAutoReconnect ==
    [][/\ HandlerRan("disconnect")
          => /\ ~_connected'
             /\ ev'.invoked = ExpectedDisconnectHook(ev'.args)
             /\ ~IssuesOpening
             /\ ~ev'.sync => log' = log
             /\ Len(engines') = Len(engines)
       /\ (Len(engines') /= Len(engines) \/ IssuesOpening)
          => /\ Calling("connect") \/ Calling("publish")
             /\ ~_connected
       /\ (Dropped /\ Calling("connect"))
          => /\ Len(engines') = Len(engines) + 1
             /\ _client' = Len(engines')
             /\ \E i, j, k \in 1..Len(log') :
                   /\ i < j /\ j < k
                   /\ log'[i] = Entry(_client', "Client", <<self.client_id>>)
                   /\ log'[j].op = "connect" /\ log'[j].eng = _client'
                   /\ log'[k] = Entry(_client', "loop_start", <<>>)]_vars

\* The engine instances whose loop was started and not stopped, among es.
Live(es) == {e \in 1..Len(es) : es[e].loop = "running"}

\* C15: at most one engine instance the wrapper created has its loop
\* started and not stopped, in every state, also after connect() timed out
\* and was retried, or a dropped connection was followed by a new
\* connect(); and connected is changed only by an event of the engine the
\* wrapper holds, never by one of a superseded engine.
C15_OneLiveEngine ==
    [][/\ Cardinality(Live(engines')) <= 1
       /\ _connected' /= _connected => ev'.eng \in {_client, _client'}]_vars

\* C16: in every state connected implies that the wrapper holds an engine
\* reference, and no publish() fails for want of one: it connects first or
\* publishes on the engine it holds.
C16_ConnectedHasEngine ==
    /\ _connected => _client /= 0
    /\ call.op = "publish" => call.ret /= "AttributeError"

\* The positions of the birth publish on the engine c in a call log.
BirthPublishes(lg, c) ==
    {i \in Calls(lg, "publish") : lg[i].eng = c /\ lg[i].args = BirthArgs}

\* C17: when the spin-wait of connect(), called by the caller or by
\* publish(topic, msg) on a disconnected wrapper, returns, the birth
\* message has been published on the new engine, and it precedes the
\* publish of (topic, msg) in the call log, however the handler on the
\* engine's thread and the spin-wait on the caller's are interleaved.
C17_BirthFirst ==
    [][(pc = "spin" /\ pc' = "idle" /\ call'.ret = "ok")
          => /\ BirthPublishes(log', _client) /= {}
             /\ \A p \in UserPublishes(log', call.topic, call.msg) :
                   \E b \in BirthPublishes(log', _client) : b < p]_vars

\* C18: the on-message handler for a topic t, interleaved statement by
\* statement with an unsubscribe(t) on the caller's thread, either calls
\* one callback registered for t, with the event's arguments, or drops the
\* message silently: it never fails on a table entry that went missing
\* between its membership test and its lookup.
C18_NoLookupFailure ==
    ev.h = "message"
    => /\ ev.err = ""
       /\ \/ ev.invoked = <<>>
          \/ /\ Len(ev.invoked) = 1
             /\ ev.invoked[1].fn \in Callbacks
             /\ ev.invoked[1].args = ev.args

\* The errors a subscribe() or unsubscribe() hands on to its caller: the
\* engine's own, or that of a call on an engine reference that is None.
PropagatedErrors == (EngineOutcomes \ {""}) \cup {"AttributeError"}

\* C19: a subscribe(topic, cb, qos) that fails, because the engine's
\* subscribe raises or because the wrapper holds no engine reference,
\* leaves the table as it was (no entry added, none overwritten) and ends
\* with that error; an unsubscribe(topic) that fails does so on a
\* registered topic, leaves its entry and the rest of the table as they
\* were, and ends with that error.
C19_FailureKeepsTable ==
    [][/\ (Calling("subscribe") /\ _client = 0)
          => /\ call'.ret = "AttributeError"
             /\ log' = <<>>
       /\ (Calling("subscribe") /\ call'.ret /= "ok")
          => /\ call'.ret \in PropagatedErrors
             /\ pc' = "idle"
             /\ _subscribe_topics' = _subscribe_topics
       /\ (Calling("unsubscribe") /\ call'.ret /= "ok")
          => /\ call'.ret \in PropagatedErrors
             /\ pc' = "idle"
             /\ call'.topic \in DOMAIN _subscribe_topics
             /\ _subscribe_topics' = _subscribe_topics]_vars

C19_Witness ==
    /\ call.op = "subscribe"
    /\ call.ret = "ValueError"
    /\ call.callback0 = "cb1"
    /\ call.msg = "cb2"
    /\ _subscribe_topics[call.topic] = "cb1"
    /\ log = <<[eng |-> _client, op |-> "subscribe",
                args |-> <<Str(call.topic), PInt(call.qos)>>]>>

\* C20: whenever the wrapper holds an engine reference, the topics in the
\* table are the topics subscribed on that engine instance, also after a
\* disconnect() or a dropped connection followed by a new connect(), where
\* the table's entries survive and a new engine instance is created.
C20_TableMatchesEngine ==
    _client /= 0 => DOMAIN _subscribe_topics = engines[_client].subs

====
